---- MODULE Spec2Model ----
(***************************************************************************)
(* The gRPC example client of grpc-client/client.py: run() opens a         *)
(* channel, builds one ChatCompletionRequest, makes one blocking unary     *)
(* call and prints the response, or the RpcError, to standard output.      *)
(*                                                                         *)
(* Text is modelled as Python sees it: a string is a sequence of symbols,  *)
(* NL is the line break, print(s) writes s followed by NL, and the lines   *)
(* of standard output are what lies between the line breaks.  Each string  *)
(* literal of the source is one symbol; decimal digits are symbols.        *)
(***************************************************************************)
EXTENDS Integers, Sequences, FiniteSets

VARIABLES
    state,       \* where the current invocation of run() is
    runs,        \* number of invocations of run() entered so far
    channel,     \* local `channel` (line 7): <<>> or <<target>>
    request,     \* local `request` (line 13): <<>> or <<req>>
    response,    \* local `response` (line 31): <<>> or <<resp>>
    err,         \* local `e` (line 44): <<>> or <<error>>
    calls,       \* the requests handed to stub.ChatCompletion, in order
    svcReply,    \* the service's answer to the latest call: <<>> or <<reply>>
    svcLatency,  \* how many ticks the service takes to give it
    waited,      \* ticks the latest call has been blocked
    stdout,      \* the writes made to standard output, one per print call
    mark,        \* Len(stdout) when the current invocation was entered
    raised,      \* an exception left run()
    exitStatus   \* <<>> while the process runs, then <<status>>

vars == <<state, runs, channel, request, response, err, calls, svcReply,
          svcLatency, waited, stdout, mark, raised, exitStatus>>

(***************************************************************************)
(* Bounds                                                                  *)
(***************************************************************************)
MaxRuns == 2
MaxChoices == 2
MaxDelay == 1

(***************************************************************************)
(* Strings                                                                 *)
(***************************************************************************)
NL == "\n"

DigitChars == <<"0", "1", "2", "3", "4", "5", "6", "7", "8", "9">>

\* str(n) of a non-negative int, as the f-string renders it
RECURSIVE Decimal(_)
Decimal(n) ==
    IF n < 10 THEN <<DigitChars[n + 1]>>
    ELSE Decimal(n \div 10) \o <<DigitChars[(n % 10) + 1]>>

\* print(s): one write of s and the line terminator
print(s) == s \o <<NL>>

\* the character stream made by a sequence of writes
RECURSIVE Chars(_)
Chars(ws) == IF ws = <<>> THEN <<>> ELSE Head(ws) \o Chars(Tail(ws))

\* position of the first NL of s, or 0
RECURSIVE FirstNL(_, _)
FirstNL(s, i) ==
    IF i > Len(s) THEN 0
    ELSE IF s[i] = NL THEN i
    ELSE FirstNL(s, i + 1)

\* the lines of a character stream (the last one need not be terminated)
RECURSIVE SplitLines(_)
SplitLines(s) ==
    IF s = <<>> THEN <<>>
    ELSE LET k == FirstNL(s, 1) IN
         IF k = 0 THEN <<s>>
         ELSE <<SubSeq(s, 1, k - 1)>> \o SplitLines(SubSeq(s, k + 1, Len(s)))

Lines(ws) == SplitLines(Chars(ws))

StartsWith(s, p) == Len(s) >= Len(p) /\ SubSeq(s, 1, Len(p)) = p

(***************************************************************************)
(* The literals of run()                                                   *)
(***************************************************************************)
Target == "localhost:8082"

LblHeader == <<"Response received:">>
LblId == <<"ID: ">>
LblModel == <<"Model: ">>
LblResponse == <<"Response: ">>
LblFinish == <<"Finish reason: ">>
LblPrompt == <<"Usage - Prompt tokens: ">>
LblCompletion == <<"Usage - Completion tokens: ">>
LblTotal == <<"Usage - Total tokens: ">>
LblFailed == <<"RPC failed: ">>

Message(r, c) == [role |-> r, content |-> c]

\* BuildRequest with the two messages in the other order
BuildRequest_swapped ==
    [llm_provider |-> "ollama",
     messages |-> <<Message("user", "What is the capital of France?"),
                    Message("system", "You are a helpful assistant.")>>,
     temperature |-> 7,
     max_tokens |-> 1000]

\* temperature is kept in tenths: 7 stands for 0.7
BuildRequest ==
    [llm_provider |-> "ollama",
     messages |-> <<Message("system", "You are a helpful assistant."),
                    Message("user", "What is the capital of France?")>>,
     temperature |-> 7,
     max_tokens |-> 1000]

(***************************************************************************)
(* What the service can answer                                             *)
(***************************************************************************)
\* message contents are free text and may span lines; ids, model names and
\* finish reasons are single-line identifiers
Choices ==
    {[message |-> Message("assistant", <<"Paris">>), finish_reason |-> <<"stop">>],
     [message |-> Message("assistant", <<"Paris.", NL, "It is in France.">>),
      finish_reason |-> <<"length">>]}

\* id, model and usage of a response; total_tokens is whatever the service says
Headers ==
    {[id |-> <<"chatcmpl-1">>, model |-> <<"llama3">>,
      usage |-> [prompt_tokens |-> 12, completion_tokens |-> 7, total_tokens |-> 19]],
     [id |-> <<"chatcmpl-2">>, model |-> <<"mistral">>,
      usage |-> [prompt_tokens |-> 0, completion_tokens |-> 105, total_tokens |-> 5]]}

SeqsUpTo(S, n) == UNION {[1..k -> S] : k \in 0..n}

Responses ==
    {[id |-> h.id, model |-> h.model, choices |-> cs, usage |-> h.usage] :
        h \in Headers, cs \in SeqsUpTo(Choices, MaxChoices)}

\* the failure causes of a unary call; each surfaces as a grpc.RpcError
Causes == {"UNAVAILABLE", "DEADLINE_EXCEEDED", "INTERNAL", "UNKNOWN"}

\* str(e): the bare message of an RpcError, or the rendering of a
\* terminated call, which spans several lines
ErrorTexts(c) ==
    {<<c>>,
     <<"<_InactiveRpcError of RPC that terminated with:", NL,
       "status = StatusCode.", c, NL, ">">>}

RpcErrors == UNION {[type : {"RpcError"}, code : {c}, text : ErrorTexts(c)] : c \in Causes}

Replies ==
    {[kind |-> "ok", value |-> r] : r \in Responses}
    \cup {[kind |-> "err", value |-> x] : x \in RpcErrors}

(***************************************************************************)
(* run()                                                                   *)
(***************************************************************************)
TypeOK ==
    /\ state \in {"none", "idle", "in-flight", "done", "failed"}
    /\ runs \in 0..MaxRuns
    /\ waited \in 0..MaxDelay
    /\ raised \in BOOLEAN

Init ==
    /\ state = "none"
    /\ runs = 0
    /\ channel = <<>>
    /\ request = <<>>
    /\ response = <<>>
    /\ err = <<>>
    /\ calls = <<>>
    /\ svcReply = <<>>
    /\ svcLatency = 0
    /\ waited = 0
    /\ stdout = <<>>
    /\ mark = 0
    /\ raised = FALSE
    /\ exitStatus = <<>>

\* run() is entered: channel, stub and request are built (lines 5-27)
Enter ==
    /\ state \in {"none", "done", "failed"}
    /\ exitStatus = <<>>
    /\ ~raised
    /\ runs < MaxRuns
    /\ runs' = runs + 1
    /\ state' = "idle"
    /\ channel' = <<Target>>
    /\ request' = <<BuildRequest>>
    /\ response' = <<>>
    /\ err' = <<>>
    /\ mark' = Len(stdout)
    /\ UNCHANGED <<calls, svcReply, svcLatency, waited, stdout, raised, exitStatus>>

\* Call with the first answer kept and replayed to later invocations
Call_cached ==
    /\ state = "idle"
    /\ IF calls = <<>>
       THEN /\ calls' = Append(calls, request[1])
            /\ \E reply \in Replies, d \in 0..MaxDelay :
                  /\ svcReply' = <<reply>>
                  /\ svcLatency' = d
       ELSE /\ svcLatency' = 0
            /\ UNCHANGED <<calls, svcReply>>
    /\ waited' = 0
    /\ state' = "in-flight"
    /\ UNCHANGED <<runs, channel, request, response, err, stdout, mark, raised, exitStatus>>

\* Call with the header printed before the call is made
Call_announces ==
    /\ state = "idle"
    /\ calls' = Append(calls, request[1])
    /\ \E reply \in Replies, d \in 0..MaxDelay :
          /\ svcReply' = <<reply>>
          /\ svcLatency' = d
    /\ waited' = 0
    /\ state' = "in-flight"
    /\ stdout' = Append(stdout, print(LblHeader))
    /\ UNCHANGED <<runs, channel, request, response, err, mark, raised, exitStatus>>

\* stub.ChatCompletion(request) is invoked and blocks (line 31)
Call ==
    /\ state = "idle"
    /\ calls' = Append(calls, request[1])
    /\ \E reply \in Replies, d \in 0..MaxDelay :
          /\ svcReply' = <<reply>>
          /\ svcLatency' = d
    /\ waited' = 0
    /\ state' = "in-flight"
    /\ UNCHANGED <<runs, channel, request, response, err, stdout, mark, raised, exitStatus>>

\* the service has not answered yet: the call stays blocked
ServiceTick ==
    /\ state = "in-flight"
    /\ waited < svcLatency
    /\ waited' = waited + 1
    /\ UNCHANGED <<state, runs, channel, request, response, err, calls, svcReply,
                   svcLatency, stdout, mark, raised, exitStatus>>

\* PrintChoices with the two prints of the loop body exchanged
RECURSIVE PrintChoices_finishFirst(_)
PrintChoices_finishFirst(cs) ==
    IF cs = <<>> THEN <<>>
    ELSE <<print(LblFinish \o Head(cs).finish_reason),
           print(LblResponse \o Head(cs).message.content)>>
         \o PrintChoices_finishFirst(Tail(cs))

\* PrintChoices that prints an empty pair when there is no choice
RECURSIVE PrintChoices_placeholder(_)
PrintChoices_placeholder(cs) ==
    IF cs = <<>> THEN <<print(LblResponse), print(LblFinish)>>
    ELSE <<print(LblResponse \o Head(cs).message.content),
           print(LblFinish \o Head(cs).finish_reason)>>
         \o (IF Tail(cs) = <<>> THEN <<>> ELSE PrintChoices_placeholder(Tail(cs)))

\* the for loop of lines 37-39
RECURSIVE PrintChoices(_)
PrintChoices(cs) ==
    IF cs = <<>> THEN <<>>
    ELSE <<print(LblResponse \o Head(cs).message.content),
           print(LblFinish \o Head(cs).finish_reason)>>
         \o PrintChoices(Tail(cs))

\* PrintResponse without the header
PrintResponse_noHeader(r) ==
    <<print(LblId \o r.id),
      print(LblModel \o r.model)>>
    \o PrintChoices(r.choices)
    \o <<print(LblPrompt \o Decimal(r.usage.prompt_tokens)),
         print(LblCompletion \o Decimal(r.usage.completion_tokens)),
         print(LblTotal \o Decimal(r.usage.total_tokens))>>

\* the prints of lines 34-42
PrintResponse(r) ==
    <<print(LblHeader),
      print(LblId \o r.id),
      print(LblModel \o r.model)>>
    \o PrintChoices(r.choices)
    \o <<print(LblPrompt \o Decimal(r.usage.prompt_tokens)),
         print(LblCompletion \o Decimal(r.usage.completion_tokens)),
         print(LblTotal \o Decimal(r.usage.total_tokens))>>

\* the call returns a response, which is printed (lines 31-42)
ReturnResponse ==
    /\ state = "in-flight"
    /\ waited = svcLatency
    /\ svcReply[1].kind = "ok"
    /\ response' = <<svcReply[1].value>>
    /\ stdout' = stdout \o PrintResponse(svcReply[1].value)
    /\ state' = "done"
    /\ UNCHANGED <<runs, channel, request, err, calls, svcReply, svcLatency, waited,
                   mark, raised, exitStatus>>

\* a handler for another exception type
Catches_wrongType(x) == x.type = "ValueError"

\* a handler that absorbs connection failures only
Catches_onlyUnavailable(x) == x.type = "RpcError" /\ x.code = "UNAVAILABLE"

\* `except grpc.RpcError` (line 44)
Catches(x) == x.type = "RpcError"

\* RaiseRpcError with the call made again after a failure
RaiseRpcError_retry ==
    /\ state = "in-flight"
    /\ waited = svcLatency
    /\ svcReply[1].kind = "err"
    /\ Len(calls) < MaxRuns + 1
    /\ calls' = Append(calls, request[1])
    /\ \E reply \in Replies, d \in 0..MaxDelay :
          /\ svcReply' = <<reply>>
          /\ svcLatency' = d
    /\ waited' = 0
    /\ UNCHANGED <<state, runs, channel, request, response, err, stdout, mark, raised,
                   exitStatus>>

\* RaiseRpcError with a deadline on the call: it gives up before the answer
RaiseRpcError_deadline ==
    /\ state = "in-flight"
    /\ \/ waited < svcLatency
       \/ svcReply[1].kind = "err"
    /\ LET x == IF waited < svcLatency
                THEN [type |-> "RpcError", code |-> "DEADLINE_EXCEEDED",
                      text |-> <<"DEADLINE_EXCEEDED">>]
                ELSE svcReply[1].value
       IN /\ err' = <<x>>
          /\ stdout' = Append(stdout, print(LblFailed \o x.text))
    /\ state' = "failed"
    /\ UNCHANGED <<runs, channel, request, response, calls, svcReply, svcLatency,
                   waited, mark, raised, exitStatus>>

\* the call raises; the handler prints the error (lines 44-45)
RaiseRpcError ==
    /\ state = "in-flight"
    /\ waited = svcLatency
    /\ svcReply[1].kind = "err"
    /\ LET x == svcReply[1].value IN
          IF Catches(x)
          THEN /\ err' = <<x>>
               /\ stdout' = Append(stdout, print(LblFailed \o x.text))
               /\ raised' = FALSE
          ELSE /\ raised' = TRUE
               /\ UNCHANGED <<err, stdout>>
    /\ state' = "failed"
    /\ UNCHANGED <<runs, channel, request, response, calls, svcReply, svcLatency,
                   waited, mark, exitStatus>>

\* run() has returned to the entry point and the process ends (lines 47-48)
Exit ==
    /\ state \in {"done", "failed"}
    /\ exitStatus = <<>>
    /\ exitStatus' = <<IF raised THEN 1 ELSE 0>>
    /\ UNCHANGED <<state, runs, channel, request, response, err, calls, svcReply,
                   svcLatency, waited, stdout, mark, raised>>

Next ==
    \/ Enter
    \/ Call
    \/ ServiceTick
    \/ ReturnResponse
    \/ RaiseRpcError
    \/ Exit

Spec == Init /\ [][Next]_vars

\* the service answers in the end, and a blocked call returns when it does
FairSpec ==
    Spec /\ WF_vars(ServiceTick) /\ WF_vars(ReturnResponse) /\ WF_vars(RaiseRpcError)

(***************************************************************************)
(* What the current invocation has written                                 *)
(***************************************************************************)
curWrites == SubSeq(stdout, mark + 1, Len(stdout))
curLines == Lines(curWrites)

\* number of line breaks inside a string
Breaks(t) == Cardinality({i \in 1..Len(t) : t[i] = NL})

RECURSIVE SumBreaks(_)
SumBreaks(cs) ==
    IF cs = <<>> THEN 0
    ELSE Breaks(Head(cs).message.content) + SumBreaks(Tail(cs))

DigitValue(c) == (CHOOSE d \in 1..10 : DigitChars[d] = c) - 1

\* the number a decimal numeral denotes
RECURSIVE ParseDecimal(_)
ParseDecimal(t) ==
    IF Len(t) = 1 THEN DigitValue(t[1])
    ELSE 10 * ParseDecimal(SubSeq(t, 1, Len(t) - 1)) + DigitValue(t[Len(t)])

\* line L is the label followed by the decimal numeral of n
IsCounterLine(L, lbl, n) ==
    /\ StartsWith(L, lbl)
    /\ Len(L) > Len(lbl)
    /\ \A i \in (Len(lbl) + 1)..Len(L) : \E d \in 1..10 : DigitChars[d] = L[i]
    /\ ParseDecimal(SubSeq(L, Len(lbl) + 1, Len(L))) = n

\* E occurs in L as a subsequence, from position i of L on
RECURSIVE Embeds(_, _, _)
Embeds(E, L, i) ==
    IF E = <<>> THEN TRUE
    ELSE IF i > Len(L) THEN FALSE
    ELSE IF L[i] = Head(E) THEN Embeds(Tail(E), L, i + 1)
    ELSE Embeds(E, L, i + 1)

\* positions of L that hold a "Response" line followed by a "Finish reason" line
PairPositions(L) ==
    {k \in 1..(Len(L) - 1) :
        StartsWith(L[k], LblResponse) /\ StartsWith(L[k + 1], LblFinish)}

\* one line per field: the id, the model, a pair per choice, the counters
FieldLines(r) ==
    <<LblId \o r.id, LblModel \o r.model>>
    \o [j \in 1..(2 * Len(r.choices)) |->
          IF j % 2 = 1 THEN LblResponse \o r.choices[(j + 1) \div 2].message.content
          ELSE LblFinish \o r.choices[j \div 2].finish_reason]
    \o <<LblPrompt \o Decimal(r.usage.prompt_tokens),
         LblCompletion \o Decimal(r.usage.completion_tokens),
         LblTotal \o Decimal(r.usage.total_tokens)>>

\* the lines choice by choice: the content's lines under the "Response" label,
\* then the "Finish reason" line
RECURSIVE ChoiceLines(_)
ChoiceLines(cs) ==
    IF cs = <<>> THEN <<>>
    ELSE SplitLines(LblResponse \o Head(cs).message.content \o <<NL>>)
         \o <<LblFinish \o Head(cs).finish_reason>>
         \o ChoiceLines(Tail(cs))

SingleLineContents(r) == \A i \in 1..Len(r.choices) : Breaks(r.choices[i].message.content) = 0

(***************************************************************************)
(* C1                                                                      *)
(***************************************************************************)
\* C1, as stated: after a response the printed lines contain, in order, the
\* id line, the model line, for each choice a "Response" line holding the
\* choice's content immediately followed by its "Finish reason" line, and
\* the three counter lines, with as many Response/Finish-reason pairs as
\* choices.
C1_OneLinePerField ==
    state = "done" =>
        LET r == response[1]
            L == curLines
        IN /\ Embeds(FieldLines(r), L, 1)
           /\ \A i \in 1..Len(r.choices) :
                 \E k \in 1..(Len(L) - 1) :
                    /\ L[k] = LblResponse \o r.choices[i].message.content
                    /\ L[k + 1] = LblFinish \o r.choices[i].finish_reason
           /\ Cardinality(PairPositions(L)) = Len(r.choices)

\* C1, amended: after a response the printed lines are the header, the id
\* line, the model line, then for each choice in response order the lines
\* of "Response: " + content (one line only when the content has no line
\* break) immediately followed by the "Finish reason" line, then the three
\* counter lines, whose numerals denote the usage fields; when no content
\* has a line break that is one line per field and one pair per choice.
C1_SummaryInOrder ==
    state = "done" =>
        LET r == response[1]
            L == curLines
            m == Len(L)
        IN /\ r = svcReply[1].value
           /\ m >= 6
           /\ L[1] = LblHeader
           /\ L[2] = LblId \o r.id
           /\ L[3] = LblModel \o r.model
           /\ SubSeq(L, 4, m - 3) = ChoiceLines(r.choices)
           /\ IsCounterLine(L[m - 2], LblPrompt, r.usage.prompt_tokens)
           /\ IsCounterLine(L[m - 1], LblCompletion, r.usage.completion_tokens)
           /\ IsCounterLine(L[m], LblTotal, r.usage.total_tokens)
           /\ SingleLineContents(r) =>
                 /\ SubSeq(L, 2, m) = FieldLines(r)
                 /\ Cardinality(PairPositions(L)) = Len(r.choices)

C1_Witness ==
    /\ state = "done"
    /\ Len(response[1].choices) = 2
    /\ response[1].choices[1] # response[1].choices[2]
    /\ response[1].usage.completion_tokens = 105

(***************************************************************************)
(* C2                                                                      *)
(***************************************************************************)
\* C2: when the call fails because the endpoint is unreachable, the first
\* line run() prints begins with "RPC failed:", nothing is raised out of
\* run(), and the process, if it has ended, ended with status 0.
C2_UnreachableAbsorbed ==
    (/\ state = "failed"
     /\ svcReply[1].value.code = "UNAVAILABLE") =>
        /\ curLines # <<>>
        /\ StartsWith(curLines[1], LblFailed)
        /\ ~raised
        /\ exitStatus \in {<<>>, <<0>>}

C2_Witness ==
    /\ state = "failed"
    /\ svcReply[1].value.code = "UNAVAILABLE"
    /\ exitStatus = <<0>>
    /\ curLines # <<>>

(***************************************************************************)
(* C3                                                                      *)
(***************************************************************************)
\* C3: every request handed to ChatCompletion has provider "ollama",
\* temperature 0.7, max_tokens 1000 and exactly the system message followed
\* by the user message; the local request holds these values from its
\* construction to the call and after.
IsTheRequest(q) ==
    /\ q.llm_provider = "ollama"
    /\ q.temperature = 7
    /\ q.max_tokens = 1000
    /\ Len(q.messages) = 2
    /\ q.messages[1].role = "system"
    /\ q.messages[1].content = "You are a helpful assistant."
    /\ q.messages[2].role = "user"
    /\ q.messages[2].content = "What is the capital of France?"

C3_RequestLiterals ==
    /\ \A i \in 1..Len(calls) : IsTheRequest(calls[i])
    /\ state \in {"idle", "in-flight", "done", "failed"} =>
          /\ Len(request) = 1
          /\ IsTheRequest(request[1])
    /\ state \in {"in-flight", "done", "failed"} => calls[Len(calls)] = request[1]

C3_Witness ==
    /\ Len(calls) = 2
    /\ state = "in-flight"

(***************************************************************************)
(* C4                                                                      *)
(***************************************************************************)
\* C4: once a second (or later) invocation has finished, one request per
\* invocation has been issued, all with the same content, and what that
\* invocation wrote is determined by the service's answer to its own call
\* alone, whatever the earlier invocations received.
C4_IndependentInvocations ==
    (runs >= 2 /\ state \in {"done", "failed"}) =>
        /\ Len(calls) = runs
        /\ \A i \in 1..Len(calls) : calls[i] = calls[1]
        /\ LET a == svcReply[1] IN
              IF a.kind = "ok"
              THEN /\ state = "done"
                   /\ response = <<a.value>>
                   /\ err = <<>>
                   /\ Chars(curWrites) = Chars(PrintResponse(a.value))
              ELSE /\ state = "failed"
                   /\ response = <<>>
                   /\ err = <<a.value>>
                   /\ Chars(curWrites) = LblFailed \o a.value.text \o <<NL>>

\* the first invocation failed and the second one succeeded
C4_Witness ==
    /\ runs = 2
    /\ state = "done"
    /\ mark = 1
    /\ StartsWith(stdout[1], LblFailed)
    /\ Len(calls) = 2

(***************************************************************************)
(* C5                                                                      *)
(***************************************************************************)
\* C5: within one invocation the state moves only idle -> in-flight,
\* in-flight -> done or in-flight -> failed; a request is issued only on
\* idle -> in-flight; done and failed are left only by a new invocation,
\* which starts in idle; from in-flight on, the invocation has issued
\* exactly one request.
C5_Step ==
    /\ runs' = runs =>
          /\ \/ state' = state
             \/ <<state, state'>> \in {<<"idle", "in-flight">>,
                                       <<"in-flight", "done">>,
                                       <<"in-flight", "failed">>}
          /\ calls' # calls =>
                /\ state = "idle"
                /\ state' = "in-flight"
                /\ Len(calls') = Len(calls) + 1
    /\ runs' # runs =>
          /\ runs' = runs + 1
          /\ state' = "idle"
          /\ calls' = calls
    /\ state' \in {"in-flight", "done", "failed"} => Len(calls') = runs'
    /\ state' = "idle" => Len(calls') = runs' - 1

\* C5: every step of the program is such a step.
C5_StateMachine == [][C5_Step]_vars

C5_Witness ==
    /\ state = "failed"
    /\ runs = 1
    /\ Len(calls) = 1
    /\ exitStatus = <<0>>

(***************************************************************************)
(* C6                                                                      *)
(***************************************************************************)
SummaryLabels ==
    {LblHeader, LblId, LblModel, LblResponse, LblFinish, LblPrompt, LblCompletion,
     LblTotal}

IsSummaryWrite(w) == \E lbl \in SummaryLabels : StartsWith(w, lbl)
IsFailureWrite(w) == StartsWith(w, LblFailed)

\* C6: what an invocation has printed is nothing, or the whole response
\* summary and no "RPC failed:" message, or the single "RPC failed:"
\* message and no part of the summary; a finished invocation has printed
\* the one or the other.
C6_SummaryOrFailure ==
    LET W == curWrites
        anySummary == \E i \in 1..Len(W) : IsSummaryWrite(W[i])
        anyFailure == \E i \in 1..Len(W) : IsFailureWrite(W[i])
    IN /\ ~(anySummary /\ anyFailure)
       /\ anyFailure => (state = "failed" /\ Len(W) = 1)
       /\ anySummary =>
             /\ state = "done"
             /\ Len(W) = 6 + 2 * Len(response[1].choices)
             /\ \A i \in 1..Len(W) : IsSummaryWrite(W[i])
       /\ state = "done" => anySummary
       /\ state = "failed" => anyFailure

C6_Witness ==
    /\ state = "failed"
    /\ Len(curWrites) = 1
    /\ IsFailureWrite(curWrites[1])
    /\ runs = 2
    /\ mark > 1

(***************************************************************************)
(* C7                                                                      *)
(***************************************************************************)
\* C7, as stated: every failure cause ends in failed with exactly one
\* diagnostic line on standard output and exit status 0, as on success.
C7_OneDiagnosticLine ==
    /\ state = "failed" =>
          /\ Len(curLines) = 1
          /\ StartsWith(curLines[1], LblFailed)
          /\ ~raised
    /\ exitStatus \in {<<>>, <<0>>}

\* C7, amended: every failure cause ends in failed with exactly one
\* diagnostic message written to standard output by one print, "RPC
\* failed: " followed by the error's text, which takes one line more than
\* the text has line breaks; nothing is raised and the exit status is 0,
\* as on success.
C7_OneDiagnosticWrite ==
    /\ state = "failed" =>
          LET x == svcReply[1].value IN
          /\ x.code \in Causes
          /\ err = <<x>>
          /\ response = <<>>
          /\ Len(curWrites) = 1
          /\ curWrites[1] = LblFailed \o x.text \o <<NL>>
          /\ Len(curLines) = 1 + Breaks(x.text)
          /\ StartsWith(curLines[1], LblFailed)
          /\ ~raised
    /\ exitStatus \in {<<>>, <<0>>}

C7_Witness ==
    /\ state = "failed"
    /\ svcReply[1].value.code = "DEADLINE_EXCEEDED"
    /\ Breaks(svcReply[1].value.text) = 2
    /\ exitStatus = <<0>>

(***************************************************************************)
(* C8                                                                      *)
(***************************************************************************)
\* a step out of in-flight is taken when the answer has arrived, and to the
\* state the answer decides
C8_LeavesOnlyOnReply ==
    (state = "in-flight" /\ state' # "in-flight") =>
        /\ waited = svcLatency
        /\ waited' = waited
        /\ state' = (IF svcReply[1].kind = "ok" THEN "done" ELSE "failed")

\* C8: a call in flight is left only when the service's answer has arrived,
\* never before, whatever the delay; and a call whose answer will be a
\* response leads to done with that response printed.
C8_BlocksUntilReply ==
    /\ [][C8_LeavesOnlyOnReply]_vars
    /\ (state = "in-flight" /\ svcReply[1].kind = "ok")
          ~> (/\ state = "done"
              /\ response = <<svcReply[1].value>>
              /\ waited = svcLatency
              /\ Len(curWrites) >= 6)

C8_Witness ==
    /\ state = "done"
    /\ svcLatency = MaxDelay
    /\ svcLatency >= 1
    /\ waited = svcLatency
    /\ Len(curWrites) >= 6

(***************************************************************************)
(* C9                                                                      *)
(***************************************************************************)
\* C9: after a response with no choices the printed lines hold the id line,
\* the model line and the three counter lines, no line beginning with
\* "Response: ", "Finish reason: " or "RPC failed: ", and the invocation is
\* done with nothing raised.
C9_ZeroChoices ==
    (state \in {"done", "failed"} /\ svcReply[1].kind = "ok"
        /\ svcReply[1].value.choices = <<>>) =>
        LET r == svcReply[1].value
            L == curLines
        IN /\ state = "done"
           /\ ~raised
           /\ \E k \in 1..Len(L) : L[k] = LblId \o r.id
           /\ \E k \in 1..Len(L) : L[k] = LblModel \o r.model
           /\ \E k \in 1..Len(L) : IsCounterLine(L[k], LblPrompt, r.usage.prompt_tokens)
           /\ \E k \in 1..Len(L) :
                 IsCounterLine(L[k], LblCompletion, r.usage.completion_tokens)
           /\ \E k \in 1..Len(L) : IsCounterLine(L[k], LblTotal, r.usage.total_tokens)
           /\ \A k \in 1..Len(L) :
                 /\ ~StartsWith(L[k], LblResponse)
                 /\ ~StartsWith(L[k], LblFinish)
                 /\ ~StartsWith(L[k], LblFailed)

C9_Witness ==
    /\ state = "done"
    /\ response # <<>>
    /\ response[1].choices = <<>>
    /\ Len(curLines) = 6

(***************************************************************************)
(* C10                                                                     *)
(***************************************************************************)
\* C10, as stated: on success the first line is the header and 6 + 2n lines
\* are printed for n choices; on failure the header is not printed and
\* exactly 1 line is printed.
C10_LineCount ==
    /\ state = "done" =>
          /\ curLines[1] = LblHeader
          /\ Len(curLines) = 6 + 2 * Len(response[1].choices)
    /\ state = "failed" =>
          /\ \A k \in 1..Len(curWrites) : ~StartsWith(curWrites[k], LblHeader)
          /\ Len(curLines) = 1

\* C10, amended: on success the first line is the header, 6 + 2n prints
\* are made for n choices, and they take 6 + 2n lines plus one for every
\* line break inside a choice's content; on failure the header is not
\* printed, exactly 1 print is made, and it takes 1 line plus one for every
\* line break inside the error's text.
C10_PrintCount ==
    /\ state = "done" =>
          LET r == response[1] IN
          /\ curLines[1] = LblHeader
          /\ curWrites[1] = LblHeader \o <<NL>>
          /\ Len(curWrites) = 6 + 2 * Len(r.choices)
          /\ Len(curLines) = 6 + 2 * Len(r.choices) + SumBreaks(r.choices)
    /\ state = "failed" =>
          /\ \A k \in 1..Len(curWrites) : ~StartsWith(curWrites[k], LblHeader)
          /\ Len(curWrites) = 1
          /\ Len(curLines) = 1 + Breaks(svcReply[1].value.text)

C10_Witness ==
    /\ state = "done"
    /\ Len(response[1].choices) = 2
    /\ SumBreaks(response[1].choices) = 1
    /\ Len(curLines) = 11

====
